---- MODULE Spec2Model ----
(***************************************************************************)
(* Feeder x month-hour load feature pipeline (merge_pipeline.py) and the   *)
(* ZIP / load-shape wrangling pipeline (data_wrangling.py).                *)
(*                                                                         *)
(* Tables (DataFrames) are sequences of records, one record per row, in    *)
(* row order.  Geometry is one-dimensional: a polygon or a feeder line is  *)
(* an interval <<lo, hi>>, its centroid is the midpoint, kept doubled      *)
(* (lo + hi) so that it stays an integer, and "within" is containment in   *)
(* the open interval (a boundary point is not within).  kWh values are     *)
(* integers (hundredths of a kWh); a mean is an exact fraction <<n, d>>.   *)
(***************************************************************************)
EXTENDS Integers, Sequences, FiniteSets, TLC

\* ------------------------------------------------------------------ values

\* pandas' missing value in a text column (cz_groups, gp) ...
NaN == "NaN"
\* ... and in a numeric column (ZIP_CODE, month, hour, index_right)
NaNNum == -1
\* ... and in the kwh column: 0/0
NaNFrac == <<0, 0>>

RECURSIVE Gcd(_, _)
Gcd(a, b) == IF b = 0 THEN a ELSE Gcd(b, a % b)

\* the exact value n/d, in lowest terms
Frac(n, d) == LET g == Gcd(n, d) IN IF g = 0 THEN <<n, d>> ELSE <<n \div g, d \div g>>

FAdd(x, y) == Frac(x[1] * y[2] + y[1] * x[2], x[2] * y[2])

\* the fill_value of the pivot: 0.0
Zero == <<0, 1>>

RECURSIVE SumSeq(_)
SumSeq(s) == IF s = <<>> THEN 0 ELSE Head(s) + SumSeq(Tail(s))

RECURSIVE FSumSeq(_)
FSumSeq(s) == IF s = <<>> THEN Zero ELSE FAdd(Head(s), FSumSeq(Tail(s)))

\* the "mean" reduction of groupby(...).agg({"kwh": "mean"})
Mean(s) == Frac(SumSeq(s), Len(s))

\* ------------------------------------------------------------- sequences

RECURSIVE SelectRows(_, _)
\* df[mask]: the rows whose index is in keep, in order
SelectRows(s, keep) ==
    IF s = <<>> THEN <<>>
    ELSE LET n == Len(s)
             front == SelectRows(SubSeq(s, 1, n - 1), keep)
         IN IF n \in keep THEN Append(front, s[n]) ELSE front

RECURSIVE Concat(_)
\* the rows of a sequence of tables, one table after the other
Concat(ss) == IF ss = <<>> THEN <<>> ELSE Head(ss) \o Concat(Tail(ss))

Range(s) == {s[i] : i \in DOMAIN s}

\* DataFrame.drop_duplicates(): the first occurrence of every row is kept
DropDuplicates(s) ==
    SelectRows(s, {i \in DOMAIN s : \A j \in 1..(i - 1) : s[j] # s[i]})

RECURSIVE SortedBy(_, _)
\* the elements of S in increasing order of rk (rk is one-to-one on S)
SortedBy(S, rk) ==
    IF S = {} THEN <<>>
    ELSE LET m == CHOOSE x \in S : \A y \in S : rk[x] <= rk[y]
         IN <<m>> \o SortedBy(S \ {m}, rk)

\* ------------------------------------------------------------ the inputs

\* the profile ids of the input files, in Python's string order
GpIds == <<"P1", "P2">>
GpRank(g) == CHOOSE i \in DOMAIN GpIds : GpIds[i] = g

\* the segment climate-zone labels of the characteristics files
SegLabels == {"Coastal", "Inland"}

\* the feeder ids of the feeder shapefile, in Python's string order
FeederIds == <<"F1", "F2">>
FeederRank(f) == CHOOSE i \in DOMAIN FeederIds : FeederIds[i] = f

\* the ZIP codes of the ZIP shapefile, one polygon per ZIP code
ZipCodes == <<90210, 95603>>

\* zone codes of the climate shapefile: two in the table, one outside it
BZones == {1, 2, 6}

\* the two climate polygons overlap on (2, 4)
ClimateShapes == <<(<<0, 4>>), (<<2, 6>>)>>
\* ZIP polygons: centroids 2 (first climate polygon only), 3 (both),
\* 4 (second only) and 7 (none); the first three overlap each other
ZipShapes == {<<0, 4>>, <<2, 4>>, <<2, 6>>, <<6, 8>>}
\* feeder lines: centroids 1, 3, 7 and 9
FeederShapes == {<<0, 2>>, <<2, 4>>, <<6, 8>>, <<8, 10>>}

\* number of feeders in the feeder shapefile
NumFeeders == 1
\* raw load-shape observations in a load file of the aggregation runs
MaxObs == 3

\* the coordinate reference systems the shapefiles come in
CrsNames == {"EPSG:4326", "EPSG:3310"}

\* where the origin of the shapes above lies on the axis of a reference system
CrsOrigin(c) == IF c = "EPSG:4326" THEN 0 ELSE 100

\* the coordinates a shapefile in reference system c holds for a shape
InCrs(shape, c) == <<shape[1] + CrsOrigin(c), shape[2] + CrsOrigin(c)>>

\* a join that leaves the coordinates in the system they came in
NoReprojection(g, from, to) == g

\* GeoDataFrame.to_crs: the coordinates of g, given in system from, in system to
ToCrs(g, from, to) ==
    <<g[1] - CrsOrigin(from) + CrsOrigin(to), g[2] - CrsOrigin(from) + CrsOrigin(to)>>

\* the reference systems of the three shapefiles; zips_climate has none
\* before process_zip_climate_mapping returns it
FileCrs(c, z, f) == [climate_zones |-> c, zips |-> z, zips_climate |-> "", feeders |-> f]

\* geometry.centroid, doubled
Centroid(g) == g[1] + g[2]
\* predicate="within" of a (doubled) point and a polygon
Within(c2, g) == 2 * g[1] < c2 /\ c2 < 2 * g[2]

SeqsUpTo(S, n) == UNION {[1..k -> S] : k \in 0..n}

CharRecords ==
    { [gp |-> "P1", seg_cz |-> "Coastal"], [gp |-> "P2", seg_cz |-> "Inland"],
      [gp |-> "P2", seg_cz |-> "Coastal"] }

\* res_characteristics.csv, nonres_characteristics.csv: at most one record each
CharFiles == SeqsUpTo(CharRecords, 1)

\* a raw observation: the date is kept as its month (date.dt.month); the
\* readings are 0.10 or 0.20 at hour 0 and 0.10 at hour 1
ObsRecords ==
    {r \in [gp : Range(GpIds), month : {4, 5, 10, 11}, hour : {0, 1}, kwh : {10, 20}] :
        r.hour = 0 \/ r.kwh = 10}

\* a load file with one May reading of P1 and one June reading of P2
MayJuneSample ==
    <<[gp |-> "P1", month |-> 5, hour |-> 0, kwh |-> 10],
      [gp |-> "P2", month |-> 6, hour |-> 1, kwh |-> 20]>>

\* the columns of Res_GP_Elec_2024.csv: "The load data is in long format:
\* gp, date, hour, kwh"
LoadColumns == {"gp", "date", "hour", "kwh"}

\* the load files of the full pipeline runs
LoadSamples ==
    { <<[gp |-> "P1", month |-> 5, hour |-> 0, kwh |-> 10],
        [gp |-> "P1", month |-> 5, hour |-> 0, kwh |-> 20]>>,
      MayJuneSample,
      <<[gp |-> "P1", month |-> 4, hour |-> 0, kwh |-> 10],
        [gp |-> "P2", month |-> 5, hour |-> 0, kwh |-> 20],
        [gp |-> "P2", month |-> 5, hour |-> 1, kwh |-> 10]>>,
      <<[gp |-> "P2", month |-> 11, hour |-> 0, kwh |-> 20]>> }


\* pd.read_csv gives the gp column the type its text has: str for ids such as
\* 1_1_NS_C, int when every id of the files is written in digits; GpIds names
\* the profiles either way
GpTypes == {"str", "int"}

\* ------------------------------------------------------------- the state

VARIABLES
    prog,               \* which script runs
    gp_type,            \* the Python type of the profile ids read from the files
    run,                \* 1 in the first pass over the stages, 2 when they are re-run
    first_wide,         \* the feature matrix the first pass returned
    crs,                \* the coordinate reference system of each geometry table
    load_columns,       \* the column names of the load file
    pc,                 \* the stage it has reached
    climate_zones,      \* Building_Climate_Zones.shp, then with cz_groups
    zips,               \* zip_poly.shp
    zips_climate,       \* result of process_zip_climate_mapping
    module_names,       \* names bound at module level of merge_pipeline
    gps_all,            \* result of load_calmac_characteristics
    zip_gp,             \* result of zip_gp_lookup
    load_data,          \* Res_GP_Elec_2024.csv, as load_calmac_load_shapes reads it
    load_month_hour,    \* result of aggregate_load_shapes
    feeders,            \* pgande_feeders.shp
    feeder_zip_map,     \* result of feeder_zips_map
    feeder_wide,        \* result of build_feeder_load_features
    gps_by_zone,        \* data_wrangling: result of group_by_climate_zone
    zips_final,         \* data_wrangling: result of merge_datasets
    zips_expanded,      \* data_wrangling: result of expand_load_shapes
    dw_load_data,       \* data_wrangling: the aggregate inside load_and_merge_load_data
    zips_with_loads,    \* data_wrangling: result of load_and_merge_load_data
    error               \* the exception that ended the run, "" when none

vars == <<prog, gp_type, run, first_wide, crs, load_columns, pc, climate_zones, zips, zips_climate, module_names, gps_all,
          zip_gp, load_data, load_month_hour, feeders, feeder_zip_map,
          feeder_wide, gps_by_zone, zips_final, zips_expanded, dw_load_data,
          zips_with_loads, error>>

NoWide == [columns |-> <<>>, rows |-> <<>>]

Init ==
    /\ prog \in {"merge_pipeline", "data_wrangling"}
    /\ gp_type \in GpTypes
    /\ run = 1
    /\ first_wide = NoWide
    /\ crs = FileCrs("EPSG:4326", "EPSG:4326", "EPSG:4326")
    /\ load_columns = LoadColumns
    /\ pc = "load_climate_zones"
    /\ load_data \in LoadSamples
    /\ climate_zones = <<>>
    /\ zips = <<>>
    /\ zips_climate = <<>>
    /\ module_names = {}
    /\ gps_all = <<>>
    /\ zip_gp = <<>>
    /\ load_month_hour = <<>>
    /\ feeders = <<>>
    /\ feeder_zip_map = <<>>
    /\ feeder_wide = NoWide
    /\ gps_by_zone = <<>>
    /\ zips_final = <<>>
    /\ zips_expanded = <<>>
    /\ dw_load_data = <<>>
    /\ zips_with_loads = <<>>
    /\ error = ""

\* ----------------------------------------------- 1. load spatial data

\* load_climate_zones (both scripts): one row per climate polygon
LoadClimateZones ==
    /\ pc = "load_climate_zones"
    /\ \E bz \in [DOMAIN ClimateShapes -> BZones] :
          climate_zones' = [i \in DOMAIN ClimateShapes |->
              [BZone |-> bz[i], geometry |-> InCrs(ClimateShapes[i], crs.climate_zones)]]
    /\ pc' = "load_zips"
    /\ UNCHANGED <<prog, gp_type, run, first_wide, crs, load_columns, zips, zips_climate, module_names, gps_all, zip_gp,
                   load_data, load_month_hour, feeders, feeder_zip_map,
                   feeder_wide, gps_by_zone, zips_final, zips_expanded,
                   dw_load_data, zips_with_loads, error>>

\* load_zip_polygons / load_zip_codes: one polygon per ZIP code
LoadZipPolygons ==
    /\ pc = "load_zips"
    /\ \E shape \in [DOMAIN ZipCodes -> ZipShapes] :
          zips' = [i \in DOMAIN ZipCodes |->
                      [ZIP_CODE |-> ZipCodes[i], geometry |-> InCrs(shape[i], crs.zips)]]
    /\ pc' = "map_climate_zones"
    /\ UNCHANGED <<prog, gp_type, run, first_wide, crs, load_columns, climate_zones, zips_climate, module_names, gps_all,
                   zip_gp, load_data, load_month_hour, feeders, feeder_zip_map,
                   feeder_wide, gps_by_zone, zips_final, zips_expanded,
                   dw_load_data, zips_with_loads, error>>

\* ------------------------------------ 2. ZIP -> climate zone -> GP list

\* a dictionary in which zone 12 went to the neighbouring valley group
CzGroupMisplaced(bzone) ==
    CASE bzone \in {1, 3, 5} -> "Coastal"
      [] bzone \in {2, 4} -> "Inland"
      [] bzone = 11 -> "North Central Valley"
      [] bzone \in {12, 13} -> "South Central Valley"
      [] OTHER -> NaN

\* the cz_groups dictionary of map_climate_zones; .map gives NaN off the table
CzGroupOf(bzone) ==
    CASE bzone \in {1, 3, 5} -> "Coastal"
      [] bzone \in {2, 4} -> "Inland"
      [] bzone \in {11, 12} -> "North Central Valley"
      [] bzone = 13 -> "South Central Valley"
      [] OTHER -> NaN

\* a mapping that also renumbers the zone codes from zero, in place
MapClimateZonesShifted(cz) ==
    [i \in DOMAIN cz |->
        [BZone |-> cz[i].BZone - 1, geometry |-> cz[i].geometry,
         cz_groups |-> CzGroupOf(cz[i].BZone - 1)]]

\* map_climate_zones: climate_zones["BZone"] and climate_zones["cz_groups"]
\* are assigned on the table that was passed, and that table is returned
MapClimateZonesOf(cz) ==
    [i \in DOMAIN cz |->
        [BZone |-> cz[i].BZone, geometry |-> cz[i].geometry,
         cz_groups |-> CzGroupOf(cz[i].BZone)]]

\* climate_zones = map_climate_zones(climate_zones): the caller's table is
\* the argument, and it holds the new column when the call returns
MapClimateZones ==
    /\ pc = "map_climate_zones"
    /\ climate_zones' = MapClimateZonesOf(climate_zones)
    /\ pc' = "process_zip_climate_mapping"
    /\ UNCHANGED <<prog, gp_type, run, first_wide, crs, load_columns, zips, zips_climate, module_names, gps_all, zip_gp,
                   load_data, load_month_hour, feeders, feeder_zip_map,
                   feeder_wide, gps_by_zone, zips_final, zips_expanded,
                   dw_load_data, zips_with_loads, error>>

\* the row pairing of a how="left" join, hits[i] being the right rows that
\* match left row i: every left row, in order, once per matching right row
\* (in right order) as <<i, j>>, and once as <<i, 0>> (missing right columns)
\* when none matches
LeftJoin(hits) ==
    Concat([i \in DOMAIN hits |->
        IF hits[i] = {} THEN <<(<<i, 0>>)>>
        ELSE LET js == SortedBy(hits[i], [j \in hits[i] |-> j])
             IN [k \in DOMAIN js |-> <<i, js[k]>>]])

\* gpd.sjoin(left, right, how="left", predicate="within") on the centroid of
\* the left rows: a left row is repeated once per right polygon its centroid
\* is within, and kept once with NaN right columns when there is none
SJoinLeftWithin(left, right) ==
    LeftJoin([i \in DOMAIN left |->
        {j \in DOMAIN right : Within(left[i].centroid, right[j].geometry)}])

\* zips["centroid"] = zips.geometry.centroid
WithCentroid(z) ==
    [ZIP_CODE |-> z.ZIP_CODE, geometry |-> z.geometry, centroid |-> Centroid(z.geometry)]

\* process_zip_climate_mapping: the ZIP polygons brought to the reference
\* system of the climate polygons (to_crs returns a new table), sjoin of the
\* ZIP centroids with the climate polygons, then the rows with a cz_groups kept
ProcessZipClimateMappingOf(zs, zs_crs, cz, cz_crs) ==
    LET zips_centroids == [i \in DOMAIN zs |-> WithCentroid(
            [ZIP_CODE |-> zs[i].ZIP_CODE, geometry |-> ToCrs(zs[i].geometry, zs_crs, cz_crs)])]
        pairs == SJoinLeftWithin(zips_centroids, cz)
        joined == [p \in DOMAIN pairs |->
            LET z == zips_centroids[pairs[p][1]]
                j == pairs[p][2]
            IN [ZIP_CODE |-> z.ZIP_CODE, geometry |-> z.geometry, centroid |-> z.centroid,
                index_right |-> IF j = 0 THEN NaNNum ELSE j - 1,
                cz_groups |-> IF j = 0 THEN NaN ELSE cz[j].cz_groups]]
    IN SelectRows(joined, {i \in DOMAIN joined : joined[i].cz_groups # NaN})

\* process_zip_climate_mapping of data_wrangling: the join carries every
\* column of climate_zones
DwProcessZipClimateMappingOf(zs, zs_crs, cz, cz_crs) ==
    LET zips_centroids == [i \in DOMAIN zs |-> WithCentroid(
            [ZIP_CODE |-> zs[i].ZIP_CODE, geometry |-> ToCrs(zs[i].geometry, zs_crs, cz_crs)])]
        pairs == SJoinLeftWithin(zips_centroids, cz)
        joined == [p \in DOMAIN pairs |->
            LET z == zips_centroids[pairs[p][1]]
                j == pairs[p][2]
            IN [ZIP_CODE |-> z.ZIP_CODE, geometry |-> z.geometry, centroid |-> z.centroid,
                index_right |-> IF j = 0 THEN NaNNum ELSE j - 1,
                BZone |-> IF j = 0 THEN NaNNum ELSE cz[j].BZone,
                cz_groups |-> IF j = 0 THEN NaN ELSE cz[j].cz_groups]]
    IN SelectRows(joined, {i \in DOMAIN joined : joined[i].cz_groups # NaN})

\* the caller keeps the result; a script run at module level of
\* merge_pipeline binds it to the module-level name zips_climate,
\* data_wrangling.main holds it in a local
ProcessZipClimateMapping ==
    /\ pc = "process_zip_climate_mapping"
    /\ \/ /\ prog = "merge_pipeline"
          /\ zips_climate' = ProcessZipClimateMappingOf(zips, crs.zips, climate_zones, crs.climate_zones)
          /\ module_names' = {"zips_climate"}
       \/ /\ prog = "merge_pipeline"
          /\ zips_climate' = ProcessZipClimateMappingOf(zips, crs.zips, climate_zones, crs.climate_zones)
          /\ module_names' = module_names
       \/ /\ prog = "data_wrangling"
          /\ zips_climate' = DwProcessZipClimateMappingOf(zips, crs.zips, climate_zones, crs.climate_zones)
          /\ module_names' = module_names
    /\ crs' = [crs EXCEPT !.zips_climate = crs.climate_zones]
    /\ pc' = "load_calmac_characteristics"
    /\ UNCHANGED <<prog, gp_type, run, first_wide, load_columns, climate_zones, zips, gps_all, zip_gp, load_data,
                   load_month_hour, feeders, feeder_zip_map, feeder_wide,
                   gps_by_zone, zips_final, zips_expanded, dw_load_data,
                   zips_with_loads, error>>

\* load_calmac_characteristics: the two files, tagged and concatenated
LoadCalmacCharacteristicsOf(res_chars, nonres_chars) ==
    [i \in DOMAIN res_chars |->
        [gp |-> res_chars[i].gp, seg_cz |-> res_chars[i].seg_cz, type |-> "residential"]]
    \o [i \in DOMAIN nonres_chars |->
        [gp |-> nonres_chars[i].gp, seg_cz |-> nonres_chars[i].seg_cz,
         type |-> "nonresidential"]]

LoadCalmacCharacteristics ==
    /\ pc = "load_calmac_characteristics"
    /\ \E res_chars \in CharFiles, nonres_chars \in CharFiles :
          gps_all' = LoadCalmacCharacteristicsOf(res_chars, nonres_chars)
    \* the files are the same when the stages are re-run
    /\ run = 2 => gps_all' = gps_all
    /\ pc' = IF prog = "merge_pipeline" THEN "zip_gp_lookup" ELSE "group_by_climate_zone"
    /\ UNCHANGED <<prog, gp_type, run, first_wide, crs, load_columns, climate_zones, zips, zips_climate, module_names, zip_gp,
                   load_data, load_month_hour, feeders, feeder_zip_map,
                   feeder_wide, gps_by_zone, zips_final, zips_expanded,
                   dw_load_data, zips_with_loads, error>>

\* gps_all.groupby("seg_cz")["gp"].apply(list): for every segment label of the
\* catalog, the list of its profile ids in catalog order (a function from the
\* label, which is all a left merge on the label reads of it)
GroupByClimateZone(gps) ==
    [z \in {gps[i].seg_cz : i \in DOMAIN gps} |->
        LET rows == SelectRows(gps, {i \in DOMAIN gps : gps[i].seg_cz = z})
        IN [k \in DOMAIN rows |-> rows[k].gp]]

\* merge(gps_by_zone, left_on="cz_groups", right_on="seg_cz", how="left")
\* followed by explode("gp_list"), as pairs <<i, gp>> of a row and a profile:
\* row i once per element of its list, and once with a NaN gp when its list
\* is missing
ExplodeGpList(rows, by_zone) ==
    Concat([i \in DOMAIN rows |->
        IF rows[i].cz_groups \in DOMAIN by_zone
        THEN [k \in DOMAIN by_zone[rows[i].cz_groups] |->
                 <<i, by_zone[rows[i].cz_groups][k]>>]
        ELSE <<(<<i, NaN>>)>>])

\* a lookup whose merge is an inner join: ZIPs without catalog entries vanish
ZipGpLookupInner(zc, gps) ==
    LET by_zone == GroupByClimateZone(gps)
        zips_small == DropDuplicates(
            [i \in DOMAIN zc |-> [ZIP_CODE |-> zc[i].ZIP_CODE, cz_groups |-> zc[i].cz_groups]])
        pairs == ExplodeGpList(zips_small, by_zone)
        all == [p \in DOMAIN pairs |->
                   [ZIP_CODE |-> zips_small[pairs[p][1]].ZIP_CODE,
                    cz_groups |-> zips_small[pairs[p][1]].cz_groups, gp |-> pairs[p][2]]]
    IN SelectRows(all, {i \in DOMAIN all : all[i].gp # NaN})

\* zip_gp_lookup
ZipGpLookupOf(zc, gps) ==
    LET by_zone == GroupByClimateZone(gps)
        zips_small == DropDuplicates(
            [i \in DOMAIN zc |-> [ZIP_CODE |-> zc[i].ZIP_CODE, cz_groups |-> zc[i].cz_groups]])
        pairs == ExplodeGpList(zips_small, by_zone)
    IN [p \in DOMAIN pairs |->
           [ZIP_CODE |-> zips_small[pairs[p][1]].ZIP_CODE,
            cz_groups |-> zips_small[pairs[p][1]].cz_groups, gp |-> pairs[p][2]]]

ZipGpLookup ==
    /\ pc = "zip_gp_lookup"
    /\ zip_gp' = ZipGpLookupOf(zips_climate, gps_all)
    /\ pc' = "aggregate_load_shapes"
    /\ UNCHANGED <<prog, gp_type, run, first_wide, crs, load_columns, climate_zones, zips, zips_climate, module_names, gps_all,
                   load_data, load_month_hour, feeders, feeder_zip_map,
                   feeder_wide, gps_by_zone, zips_final, zips_expanded,
                   dw_load_data, zips_with_loads, error>>


\* ------------------------------------------ 3. load shapes: gp x month x hour

\* a season window that opens a month early
InSeasonFromApril(month) == month \in {4, 5, 6, 7, 8, 9, 10}

\* load_data["date"].dt.month.isin([5, 6, 7, 8, 9, 10])
InSeason(month) == month \in {5, 6, 7, 8, 9, 10}

\* (month >= 5) & (month <= 10), the filter of load_and_merge_load_data
DwInSeason(month) == month >= 5 /\ month <= 10

\* the KeyError pandas raises for a column that is not in the table
KeyErrorOf(col) ==
    CASE col = "date" -> "KeyError: 'date'"
      [] col = "gp" -> "KeyError: 'gp'"
      [] col = "hour" -> "KeyError: 'hour'"
      [] col = "kwh" -> "KeyError: 'kwh'"

\* the first column the loading and the aggregation of the load file look
\* up that is not among cols ("" when none is missing): load_data['date']
\* and load_data['gp'] in load_calmac_load_shapes, then the groupby key hour
\* and the aggregated column kwh
FirstMissing(cols) ==
    CASE "date" \notin cols -> "date"
      [] "gp" \notin cols -> "gp"
      [] "hour" \notin cols -> "hour"
      [] "kwh" \notin cols -> "kwh"
      [] OTHER -> ""

\* required_cols = ['gp']  # Add other required columns
RequiredCols == <<"gp">>

\* f"Missing required column: {col}"
MissingRequiredColumn(col) ==
    CASE col = "gp" -> "ValueError: Missing required column: gp"
      [] col = "date" -> "ValueError: Missing required column: date"
      [] col = "hour" -> "ValueError: Missing required column: hour"
      [] col = "kwh" -> "ValueError: Missing required column: kwh"

\* process_load_data_format: the error raised for the first required column
\* that is not in the table, "" when the table is returned
ProcessLoadDataFormatOf(cols) ==
    LET missing == {i \in DOMAIN RequiredCols : RequiredCols[i] \notin cols}
    IN IF missing = {} THEN ""
       ELSE MissingRequiredColumn(RequiredCols[CHOOSE i \in missing : \A j \in missing : i <= j])

ProcessLoadDataFormat ==
    /\ pc = "process_load_data_format"
    /\ error' = ProcessLoadDataFormatOf(load_columns)
    /\ pc' = IF ProcessLoadDataFormatOf(load_columns) = "" THEN "aggregate_load_shapes" ELSE "error"
    /\ UNCHANGED <<prog, gp_type, run, first_wide, crs, load_columns, climate_zones, zips,
                   zips_climate, module_names, gps_all, zip_gp, load_data,
                   load_month_hour, feeders, feeder_zip_map, feeder_wide,
                   gps_by_zone, zips_final, zips_expanded, dw_load_data,
                   zips_with_loads>>

\* position of a (gp, month, hour) group among the sorted group keys
GroupRank(k) == GpRank(k.gp) * 10000 + k.month * 100 + k.hour

\* groupby(["gp", "month", "hour"], as_index=False).agg({"kwh": "mean"}):
\* one row per group key that occurs, in key order, with the mean of the
\* group's kwh values
GroupMean(rows) ==
    LET keys == {[gp |-> rows[i].gp, month |-> rows[i].month, hour |-> rows[i].hour] :
                    i \in DOMAIN rows}
        order == SortedBy(keys, [k \in keys |-> GroupRank(k)])
        Members(k) == SelectRows(rows, {i \in DOMAIN rows :
                          /\ rows[i].gp = k.gp
                          /\ rows[i].month = k.month
                          /\ rows[i].hour = k.hour})
    IN [n \in DOMAIN order |->
           LET grp == Members(order[n])
           IN [gp |-> order[n].gp, month |-> order[n].month, hour |-> order[n].hour,
               kwh |-> Mean([i \in DOMAIN grp |-> grp[i].kwh])]]

\* aggregate_load_shapes, on the rows load_calmac_load_shapes returns
AggregateLoadShapesOf(raw) ==
    GroupMean(SelectRows(raw, {i \in DOMAIN raw : InSeason(raw[i].month)}))

\* the aggregation inside load_and_merge_load_data
DwAggregateOf(raw) ==
    GroupMean(SelectRows(raw, {i \in DOMAIN raw : DwInSeason(raw[i].month)}))

AggregateLoadShapes ==
    /\ pc = "aggregate_load_shapes"
    /\ IF FirstMissing(load_columns) = ""
       THEN /\ load_month_hour' = AggregateLoadShapesOf(load_data)
            /\ pc' = IF prog = "merge_pipeline" THEN "load_feeders"
                     ELSE "load_and_merge_load_data"
            /\ error' = error
       ELSE /\ load_month_hour' = load_month_hour
            /\ pc' = "error"
            /\ error' = KeyErrorOf(FirstMissing(load_columns))
    /\ UNCHANGED <<prog, gp_type, run, first_wide, crs, load_columns, climate_zones, zips, zips_climate, module_names, gps_all,
                   zip_gp, load_data, feeders, feeder_zip_map, feeder_wide,
                   gps_by_zone, zips_final, zips_expanded, dw_load_data,
                   zips_with_loads>>

\* ------------------------------------------------- 4. feeders to ZIPs

\* load_feeders: the feeder lines, one row per feeder id
LoadFeeders ==
    /\ pc = "load_feeders"
    /\ \E shape \in [1..NumFeeders -> FeederShapes] :
          feeders' = [i \in 1..NumFeeders |->
              [feeder_id |-> FeederIds[i], geometry |-> InCrs(shape[i], crs.feeders)]]
    \* the shapefile is the same when the stages are re-run
    /\ run = 2 => feeders' = feeders
    /\ pc' = "feeder_zips_map"
    /\ UNCHANGED <<prog, gp_type, run, first_wide, crs, load_columns, climate_zones, zips, zips_climate, module_names, gps_all,
                   zip_gp, load_data, load_month_hour, feeder_zip_map, feeder_wide,
                   gps_by_zone, zips_final, zips_expanded, dw_load_data,
                   zips_with_loads, error>>

\* the body of feeder_zips_map once the name zips_climate resolves to the
\* table zc: the zips parameter is not read, the feeders are brought to the
\* reference system of zc and their centroids are joined with the geometry
\* column of zc
FeederZipsMapOf(fs, fs_crs, zc, zc_crs) ==
    LET feeders_centroids ==
            [i \in DOMAIN fs |->
                LET g == ToCrs(fs[i].geometry, fs_crs, zc_crs)
                IN [feeder_id |-> fs[i].feeder_id, geometry |-> g, centroid |-> Centroid(g)]]
        right == [j \in DOMAIN zc |-> [ZIP_CODE |-> zc[j].ZIP_CODE,
                                       geometry |-> zc[j].geometry]]
        pairs == SJoinLeftWithin(feeders_centroids, right)
        feeder_zip == [p \in DOMAIN pairs |->
            [feeder_id |-> feeders_centroids[pairs[p][1]].feeder_id,
             ZIP_CODE |-> IF pairs[p][2] = 0 THEN NaNNum ELSE right[pairs[p][2]].ZIP_CODE]]
    IN DropDuplicates(feeder_zip)

\* feeder_zips_map(feeders, zips): zips_climate is looked up at module level
FeederZipsMap ==
    /\ pc = "feeder_zips_map"
    /\ IF "zips_climate" \in module_names
       THEN /\ feeder_zip_map' = FeederZipsMapOf(feeders, crs.feeders, zips_climate, crs.zips_climate)
            /\ pc' = "build_feeder_load_features"
            /\ error' = error
       ELSE /\ feeder_zip_map' = feeder_zip_map
            /\ pc' = "error"
            /\ error' = "NameError"
    /\ UNCHANGED <<prog, gp_type, run, first_wide, crs, load_columns, climate_zones, zips, zips_climate, module_names, gps_all,
                   zip_gp, load_data, load_month_hour, feeders, feeder_wide,
                   gps_by_zone, zips_final, zips_expanded, dw_load_data,
                   zips_with_loads>>


\* ------------------------------------------------------- 5. pivot wide

\* a pivot that also keeps the ZIP code in its index
IndexColumnsWithZip == <<"feeder_id", "ZIP_CODE", "month", "hour">>

\* index=["feeder_id", "month", "hour"], columns again after reset_index()
IndexColumns == <<"feeder_id", "month", "hour">>

\* isinstance(c, str): the index labels are str, the label of a profile
\* column has the type of the profile ids
IsStr(c) == c \in Range(IndexColumns) \/ gp_type = "str"

\* a flattening that leaves every label as it is
KeepLabel(c) == <<"", c>>

\* the label a column gets when the pivoted columns are flattened:
\* f"kwh_{c}" is the pair <<"kwh_", c>>, an unchanged label c is <<"", c>>
FlattenLabel(c) ==
    IF IsStr(c) /\ c \notin Range(IndexColumns) THEN <<"kwh_", c>> ELSE <<"", c>>

\* zip_gp_sub.merge(load_month_hour, on="gp", how="left")
MergeLoad(zip_gp_sub, lmh) ==
    LET pairs == LeftJoin([i \in DOMAIN zip_gp_sub |->
                     {j \in DOMAIN lmh : lmh[j].gp = zip_gp_sub[i].gp}])
    IN [p \in DOMAIN pairs |->
           LET l == zip_gp_sub[pairs[p][1]]
               j == pairs[p][2]
           IN [ZIP_CODE |-> l.ZIP_CODE, cz_groups |-> l.cz_groups, gp |-> l.gp,
               month |-> IF j = 0 THEN NaNNum ELSE lmh[j].month,
               hour |-> IF j = 0 THEN NaNNum ELSE lmh[j].hour,
               kwh |-> IF j = 0 THEN NaNFrac ELSE lmh[j].kwh]]

\* zip_gp_month_hour.merge(feeder_zip_map, on="ZIP_CODE", how="left")
MergeFeeders(zgmh, fzm) ==
    LET pairs == LeftJoin([i \in DOMAIN zgmh |->
                     {j \in DOMAIN fzm : fzm[j].ZIP_CODE = zgmh[i].ZIP_CODE}])
    IN [p \in DOMAIN pairs |->
           LET l == zgmh[pairs[p][1]]
               j == pairs[p][2]
           IN [ZIP_CODE |-> l.ZIP_CODE, cz_groups |-> l.cz_groups, gp |-> l.gp,
               month |-> l.month, hour |-> l.hour, kwh |-> l.kwh,
               feeder_id |-> IF j = 0 THEN NaN ELSE fzm[j].feeder_id]]

\* a reduction that keeps the first value of a group instead of summing
AggFirst(vals) == IF vals = <<>> THEN Zero ELSE Head(vals)

\* .agg({"kwh": "sum"}) on the kwh values of one group
AggSum(vals) == FSumSeq(vals)

\* a groupby that drops a row only for a missing feeder or profile id
HasIdKeys(row) == row.feeder_id # NaN /\ row.gp # NaN

\* groupby's default dropna=True: a row takes part when none of its keys is missing
HasKeys(row) ==
    /\ row.feeder_id # NaN
    /\ row.month # NaNNum
    /\ row.hour # NaNNum
    /\ row.gp # NaN

FgmhRank(k) ==
    FeederRank(k.feeder_id) * 1000000 + k.month * 10000 + k.hour * 100 + GpRank(k.gp)

\* groupby(["feeder_id", "month", "hour", "gp"], as_index=False).agg({"kwh": "sum"}):
\* rows with a missing key are left out, a missing kwh is skipped by the sum
GroupSum(rows) ==
    LET keyed == SelectRows(rows, {i \in DOMAIN rows : HasKeys(rows[i])})
        keys == {[feeder_id |-> keyed[i].feeder_id, month |-> keyed[i].month,
                  hour |-> keyed[i].hour, gp |-> keyed[i].gp] : i \in DOMAIN keyed}
        order == SortedBy(keys, [k \in keys |-> FgmhRank(k)])
        Members(k) == SelectRows(keyed, {i \in DOMAIN keyed :
                          /\ keyed[i].feeder_id = k.feeder_id
                          /\ keyed[i].month = k.month
                          /\ keyed[i].hour = k.hour
                          /\ keyed[i].gp = k.gp
                          /\ keyed[i].kwh # NaNFrac})
    IN [n \in DOMAIN order |->
           LET grp == Members(order[n])
           IN [feeder_id |-> order[n].feeder_id, month |-> order[n].month,
               hour |-> order[n].hour, gp |-> order[n].gp,
               kwh |-> AggSum([i \in DOMAIN grp |-> grp[i].kwh])]]

FmhRank(k) == FeederRank(k.feeder_id) * 10000 + k.month * 100 + k.hour

\* a pivot whose columns are reindexed over every known profile id
PivotColumnsAll(fgmh) == Range(GpIds)

\* columns="gp": the gp values that occur in the table being pivoted
PivotColumns(fgmh) == {fgmh[i].gp : i \in DOMAIN fgmh}

\* a pivot whose index is the full product of the feeders, months and hours
\* that occur
PivotIndexProduct(fgmh) ==
    [feeder_id : {fgmh[i].feeder_id : i \in DOMAIN fgmh},
     month : {fgmh[i].month : i \in DOMAIN fgmh},
     hour : {fgmh[i].hour : i \in DOMAIN fgmh}]

\* index=["feeder_id", "month", "hour"]: the index combinations that occur
\* in the table being pivoted
PivotIndex(fgmh) ==
    {[feeder_id |-> fgmh[i].feeder_id, month |-> fgmh[i].month,
      hour |-> fgmh[i].hour] : i \in DOMAIN fgmh}

\* pivot_table(index=["feeder_id", "month", "hour"], columns="gp", values="kwh",
\* aggfunc="sum", fill_value=0.0).reset_index(), then the flattening of the
\* column labels: the index rows and the gp columns are the sorted distinct
\* values that occur, a cell is the sum of its rows and 0.0 when it has none
PivotWide(fgmh) ==
    LET index == PivotIndex(fgmh)
        gps == PivotColumns(fgmh)
        rowOrder == SortedBy(index, [k \in index |-> FmhRank(k)])
        colOrder == SortedBy(gps, [g \in gps |-> GpRank(g)])
        Cell(k, g) ==
            LET grp == SelectRows(fgmh, {i \in DOMAIN fgmh :
                           /\ fgmh[i].feeder_id = k.feeder_id
                           /\ fgmh[i].month = k.month
                           /\ fgmh[i].hour = k.hour
                           /\ fgmh[i].gp = g})
            IN IF grp = <<>> THEN Zero ELSE AggSum([i \in DOMAIN grp |-> grp[i].kwh])
        labels == IndexColumns \o colOrder
    IN [columns |-> [c \in DOMAIN labels |-> FlattenLabel(labels[c])],
        rows |-> [n \in DOMAIN rowOrder |->
                     [feeder_id |-> rowOrder[n].feeder_id, month |-> rowOrder[n].month,
                      hour |-> rowOrder[n].hour,
                      kwh |-> [g \in gps |-> Cell(rowOrder[n], g)]]]]

\* build_feeder_load_features (the definition in force, the second one)
BuildFeederLoadFeaturesOf(zgp, lmh, fzm) ==
    LET zips_for_feeders == {fzm[i].ZIP_CODE : i \in DOMAIN fzm}
        zip_gp_sub == SelectRows(zgp, {i \in DOMAIN zgp : zgp[i].ZIP_CODE \in zips_for_feeders})
        zip_gp_month_hour == MergeFeeders(MergeLoad(zip_gp_sub, lmh), fzm)
        feeder_gp_month_hour == GroupSum(zip_gp_month_hour)
    IN PivotWide(feeder_gp_month_hour)

BuildFeederLoadFeatures ==
    /\ pc = "build_feeder_load_features"
    /\ feeder_wide' = BuildFeederLoadFeaturesOf(zip_gp, load_month_hour, feeder_zip_map)
    /\ pc' = "done"
    /\ UNCHANGED <<prog, gp_type, run, first_wide, crs, load_columns, climate_zones, zips, zips_climate, module_names, gps_all,
                   zip_gp, load_data, load_month_hour, feeders, feeder_zip_map,
                   gps_by_zone, zips_final, zips_expanded, dw_load_data,
                   zips_with_loads, error>>

\* ------------------------------------------- data_wrangling's own stages

\* group_by_climate_zone
GroupByClimateZoneStep ==
    /\ pc = "group_by_climate_zone"
    /\ gps_by_zone' = GroupByClimateZone(gps_all)
    /\ pc' = "merge_datasets"
    /\ UNCHANGED <<prog, gp_type, run, first_wide, crs, load_columns, climate_zones, zips, zips_climate, module_names, gps_all,
                   zip_gp, load_data, load_month_hour, feeders, feeder_zip_map,
                   feeder_wide, zips_final, zips_expanded, dw_load_data,
                   zips_with_loads, error>>

\* merge_datasets: the left merge on the group label, index_right dropped;
\* gp_list is the empty list where pandas holds a missing value, seg_cz
\* tells the two apart
MergeDatasetsOf(zc, by_zone) ==
    [i \in DOMAIN zc |->
        [ZIP_CODE |-> zc[i].ZIP_CODE, geometry |-> zc[i].geometry,
         centroid |-> zc[i].centroid, BZone |-> zc[i].BZone,
         cz_groups |-> zc[i].cz_groups,
         seg_cz |-> IF zc[i].cz_groups \in DOMAIN by_zone THEN zc[i].cz_groups ELSE NaN,
         gp_list |-> IF zc[i].cz_groups \in DOMAIN by_zone
                     THEN by_zone[zc[i].cz_groups] ELSE <<>>]]

MergeDatasets ==
    /\ pc = "merge_datasets"
    /\ zips_final' = MergeDatasetsOf(zips_climate, gps_by_zone)
    /\ pc' = "expand_load_shapes"
    /\ UNCHANGED <<prog, gp_type, run, first_wide, crs, load_columns, climate_zones, zips, zips_climate, module_names, gps_all,
                   zip_gp, load_data, load_month_hour, feeders, feeder_zip_map,
                   feeder_wide, gps_by_zone, zips_expanded, dw_load_data,
                   zips_with_loads, error>>

\* expand_load_shapes: explode("gp_list"), one row per list element and one
\* row with a missing gp for a missing list
ExpandLoadShapesOf(zf) ==
    LET Row(z, g) == [ZIP_CODE |-> z.ZIP_CODE, geometry |-> z.geometry,
                      centroid |-> z.centroid, BZone |-> z.BZone,
                      cz_groups |-> z.cz_groups, seg_cz |-> z.seg_cz, gp |-> g]
    IN Concat([i \in DOMAIN zf |->
           IF zf[i].seg_cz = NaN THEN <<Row(zf[i], NaN)>>
           ELSE [k \in DOMAIN zf[i].gp_list |-> Row(zf[i], zf[i].gp_list[k])]])

ExpandLoadShapes ==
    /\ pc = "expand_load_shapes"
    /\ zips_expanded' = ExpandLoadShapesOf(zips_final)
    /\ pc' = "load_and_merge_load_data"
    /\ UNCHANGED <<prog, gp_type, run, first_wide, crs, load_columns, climate_zones, zips, zips_climate, module_names, gps_all,
                   zip_gp, load_data, load_month_hour, feeders, feeder_zip_map,
                   feeder_wide, gps_by_zone, zips_final, dw_load_data,
                   zips_with_loads, error>>

\* zips_expanded.merge(load_data, on="gp", how="left")
DwMergeLoad(ze, ld) ==
    LET pairs == LeftJoin([i \in DOMAIN ze |-> {j \in DOMAIN ld : ld[j].gp = ze[i].gp}])
    IN [p \in DOMAIN pairs |->
           LET l == ze[pairs[p][1]]
               j == pairs[p][2]
           IN [ZIP_CODE |-> l.ZIP_CODE, cz_groups |-> l.cz_groups, gp |-> l.gp,
               month |-> IF j = 0 THEN NaNNum ELSE ld[j].month,
               hour |-> IF j = 0 THEN NaNNum ELSE ld[j].hour,
               kwh |-> IF j = 0 THEN NaNFrac ELSE ld[j].kwh]]

\* load_and_merge_load_data: reads the load file, aggregates it and merges
\* the aggregate onto the expanded ZIP table
LoadAndMergeLoadData ==
    /\ pc = "load_and_merge_load_data"
    /\ IF FirstMissing(load_columns) = ""
       THEN /\ dw_load_data' = DwAggregateOf(load_data)
            /\ zips_with_loads' = DwMergeLoad(zips_expanded, DwAggregateOf(load_data))
            /\ pc' = IF prog = "data_wrangling" THEN "save_results" ELSE "done"
            /\ error' = error
       ELSE /\ dw_load_data' = dw_load_data
            /\ zips_with_loads' = zips_with_loads
            /\ pc' = "error"
            /\ error' = KeyErrorOf(FirstMissing(load_columns))
    /\ UNCHANGED <<prog, gp_type, run, first_wide, crs, load_columns, climate_zones, zips, zips_climate, module_names, gps_all,
                   zip_gp, load_data, load_month_hour, feeders, feeder_zip_map,
                   feeder_wide, gps_by_zone, zips_final, zips_expanded>>

\* main calls save_results, whose definition is commented out
SaveResults ==
    /\ pc = "save_results"
    /\ pc' = "error"
    /\ error' = "NameError"
    /\ UNCHANGED <<prog, gp_type, run, first_wide, crs, load_columns, climate_zones, zips, zips_climate, module_names, gps_all,
                   zip_gp, load_data, load_month_hour, feeders, feeder_zip_map,
                   feeder_wide, gps_by_zone, zips_final, zips_expanded,
                   dw_load_data, zips_with_loads>>

\* the stages of merge_pipeline are run once more in the same session, on
\* the tables the first pass left in memory (climate_zones as
\* map_climate_zones changed it in place) and on the same files
Rerun ==
    /\ prog = "merge_pipeline"
    /\ pc = "done"
    /\ run = 1
    /\ run' = 2
    /\ first_wide' = feeder_wide
    /\ pc' = "map_climate_zones"
    /\ UNCHANGED <<prog, gp_type, crs, load_columns, climate_zones, zips, zips_climate, module_names,
                   gps_all, zip_gp, load_data, load_month_hour, feeders,
                   feeder_zip_map, feeder_wide, gps_by_zone, zips_final,
                   zips_expanded, dw_load_data, zips_with_loads, error>>

\* --------------------------------------------------- specification

Next ==
    \/ LoadClimateZones
    \/ LoadZipPolygons
    \/ MapClimateZones
    \/ ProcessZipClimateMapping
    \/ LoadCalmacCharacteristics
    \/ ZipGpLookup
    \/ AggregateLoadShapes
    \/ LoadFeeders
    \/ FeederZipsMap
    \/ BuildFeederLoadFeatures
    \/ GroupByClimateZoneStep
    \/ MergeDatasets
    \/ ExpandLoadShapes
    \/ LoadAndMergeLoadData
    \/ SaveResults
    \/ Rerun

Spec == Init /\ [][Next]_vars

\* the runs on shapefiles in any combination of reference systems
InitCrs ==
    /\ prog \in {"merge_pipeline", "data_wrangling"}
    /\ gp_type = "str"
    /\ run = 1
    /\ first_wide = NoWide
    /\ crs \in {FileCrs(c, z, f) : c \in CrsNames, z \in CrsNames, f \in CrsNames}
    /\ load_columns = LoadColumns
    /\ pc = "load_climate_zones"
    /\ load_data = MayJuneSample
    /\ climate_zones = <<>>
    /\ zips = <<>>
    /\ zips_climate = <<>>
    /\ module_names = {}
    /\ gps_all = <<>>
    /\ zip_gp = <<>>
    /\ load_month_hour = <<>>
    /\ feeders = <<>>
    /\ feeder_zip_map = <<>>
    /\ feeder_wide = NoWide
    /\ gps_by_zone = <<>>
    /\ zips_final = <<>>
    /\ zips_expanded = <<>>
    /\ dw_load_data = <<>>
    /\ zips_with_loads = <<>>
    /\ error = ""

\* one run of either pipeline, without a second pass
NextCrs ==
    \/ LoadClimateZones
    \/ LoadZipPolygons
    \/ MapClimateZones
    \/ ProcessZipClimateMapping
    \/ LoadCalmacCharacteristics
    \/ ZipGpLookup
    \/ AggregateLoadShapes
    \/ LoadFeeders
    \/ FeederZipsMap
    \/ BuildFeederLoadFeatures
    \/ GroupByClimateZoneStep
    \/ MergeDatasets
    \/ ExpandLoadShapes
    \/ LoadAndMergeLoadData
    \/ SaveResults

SpecCrs == InitCrs /\ [][NextCrs]_vars

\* a run of data_wrangling.main on input files that all load
InitMain ==
    /\ prog = "data_wrangling"
    /\ gp_type = "str"
    /\ run = 1
    /\ first_wide = NoWide
    /\ crs = FileCrs("EPSG:4326", "EPSG:4326", "EPSG:4326")
    /\ load_columns = LoadColumns
    /\ pc = "load_climate_zones"
    /\ load_data \in LoadSamples
    /\ climate_zones = <<>>
    /\ zips = <<>>
    /\ zips_climate = <<>>
    /\ module_names = {}
    /\ gps_all = <<>>
    /\ zip_gp = <<>>
    /\ load_month_hour = <<>>
    /\ feeders = <<>>
    /\ feeder_zip_map = <<>>
    /\ feeder_wide = NoWide
    /\ gps_by_zone = <<>>
    /\ zips_final = <<>>
    /\ zips_expanded = <<>>
    /\ dw_load_data = <<>>
    /\ zips_with_loads = <<>>
    /\ error = ""

\* the statements of main, in the order main has them
NextMain ==
    \/ LoadClimateZones
    \/ LoadZipPolygons
    \/ MapClimateZones
    \/ ProcessZipClimateMapping
    \/ LoadCalmacCharacteristics
    \/ GroupByClimateZoneStep
    \/ MergeDatasets
    \/ ExpandLoadShapes
    \/ LoadAndMergeLoadData
    \/ SaveResults

\* the stages of data_wrangling.main in pipeline order, then its return
MainStages ==
    <<"load_climate_zones", "load_zips", "map_climate_zones",
      "process_zip_climate_mapping", "load_calmac_characteristics",
      "group_by_climate_zone", "merge_datasets", "expand_load_shapes",
      "load_and_merge_load_data", "save_results", "done">>

\* the stage control is at comes to an end: control goes on to another
\* statement of main, or the call raises
StageEnds ==
    /\ pc \notin {"done", "error"}
    /\ pc' \in (Range(MainStages) \cup {"error"}) \ {pc}

\* main is straight-line code and every stage is a finite computation over
\* finite tables: a stage that has been called does not run for ever
SpecMain == InitMain /\ [][NextMain]_vars /\ WF_pc(StageEnds)

\* the zone codes a Building_Climate_Zones.shp can hold: the sixteen CEC
\* building climate zones
AllBZones == 1..16

\* the zone mapping runs: a climate zone table with any zone codes has been
\* read, then the ZIP polygons are read, the zones are mapped to groups and
\* the ZIPs are assigned
InitZones ==
    /\ prog \in {"merge_pipeline", "data_wrangling"}
    /\ gp_type = "str"
    /\ run = 1
    /\ first_wide = NoWide
    /\ crs = FileCrs("EPSG:4326", "EPSG:4326", "EPSG:4326")
    /\ load_columns = LoadColumns
    /\ pc = "load_zips"
    /\ load_data = MayJuneSample
    /\ \E bz \in [DOMAIN ClimateShapes -> AllBZones] :
          climate_zones = [i \in DOMAIN ClimateShapes |->
              [BZone |-> bz[i], geometry |-> InCrs(ClimateShapes[i], "EPSG:4326")]]
    /\ zips = <<>>
    /\ zips_climate = <<>>
    /\ module_names = {}
    /\ gps_all = <<>>
    /\ zip_gp = <<>>
    /\ load_month_hour = <<>>
    /\ feeders = <<>>
    /\ feeder_zip_map = <<>>
    /\ feeder_wide = NoWide
    /\ gps_by_zone = <<>>
    /\ zips_final = <<>>
    /\ zips_expanded = <<>>
    /\ dw_load_data = <<>>
    /\ zips_with_loads = <<>>
    /\ error = ""

NextZones == LoadZipPolygons \/ MapClimateZones \/ ProcessZipClimateMapping

SpecZones == InitZones /\ [][NextZones]_vars

\* the expanded ZIP tables handed to the merges: rows as in the
\* sample_zips_expanded of create_sample_data, a profile may be missing
LeftRecords == [ZIP_CODE : Range(ZipCodes), cz_groups : {"Coastal"}, gp : Range(GpIds) \cup {NaN}]

\* rows of the left table in a merge
MaxLeft == 2

\* an inner merge: the left rows without load data are lost
MergeLoadDataInner(ze, ld) ==
    LET pairs == LeftJoin([i \in DOMAIN ze |-> {j \in DOMAIN ld : ld[j].gp = ze[i].gp}])
        kept == SelectRows(pairs, {p \in DOMAIN pairs : pairs[p][2] # 0})
    IN [p \in DOMAIN kept |->
           LET l == ze[kept[p][1]]
               j == kept[p][2]
           IN [ZIP_CODE |-> l.ZIP_CODE, cz_groups |-> l.cz_groups, gp |-> l.gp,
               month |-> ld[j].month, hour |-> ld[j].hour, kwh |-> ld[j].kwh]]

\* merge_load_data: zips_expanded.merge(load_data, on='gp', how='left'), the
\* load data in long format (the date kept as its month)
MergeLoadDataOf(ze, ld) ==
    LET pairs == LeftJoin([i \in DOMAIN ze |-> {j \in DOMAIN ld : ld[j].gp = ze[i].gp}])
    IN [p \in DOMAIN pairs |->
           LET l == ze[pairs[p][1]]
               j == pairs[p][2]
           IN [ZIP_CODE |-> l.ZIP_CODE, cz_groups |-> l.cz_groups, gp |-> l.gp,
               month |-> IF j = 0 THEN NaNNum ELSE ld[j].month,
               hour |-> IF j = 0 THEN NaNNum ELSE ld[j].hour,
               kwh |-> IF j = 0 THEN NaNNum ELSE ld[j].kwh]]

\* demonstrate_merge: merged_data = zips_expanded.merge(load_data, on='gp',
\* how='left'); the rest of the function prints
DemonstrateMergeOf(ze, ld) ==
    LET pairs == LeftJoin([i \in DOMAIN ze |-> {j \in DOMAIN ld : ld[j].gp = ze[i].gp}])
    IN [p \in DOMAIN pairs |->
           LET l == ze[pairs[p][1]]
               j == pairs[p][2]
           IN [ZIP_CODE |-> l.ZIP_CODE, cz_groups |-> l.cz_groups, gp |-> l.gp,
               month |-> IF j = 0 THEN NaNNum ELSE ld[j].month,
               hour |-> IF j = 0 THEN NaNNum ELSE ld[j].hour,
               kwh |-> IF j = 0 THEN NaNNum ELSE ld[j].kwh]]

MergeLoadData ==
    /\ pc = "merge_load_data"
    /\ zips_with_loads' = MergeLoadDataOf(zips_expanded, load_data)
    /\ pc' = "demonstrate_merge"
    /\ UNCHANGED <<prog, gp_type, run, first_wide, crs, load_columns, climate_zones, zips, zips_climate, module_names, gps_all,
                   zip_gp, load_data, load_month_hour, feeders, feeder_zip_map,
                   feeder_wide, gps_by_zone, zips_final, zips_expanded,
                   dw_load_data, error>>

DemonstrateMerge ==
    /\ pc = "demonstrate_merge"
    /\ zips_with_loads' = DemonstrateMergeOf(zips_expanded, load_data)
    /\ pc' = "load_and_merge_load_data"
    /\ UNCHANGED <<prog, gp_type, run, first_wide, crs, load_columns, climate_zones, zips, zips_climate, module_names, gps_all,
                   zip_gp, load_data, load_month_hour, feeders, feeder_zip_map,
                   feeder_wide, gps_by_zone, zips_final, zips_expanded,
                   dw_load_data, error>>

\* the merge runs: an expanded ZIP table and a load file are merged by
\* merge_load_data, by demonstrate_merge and by load_and_merge_load_data
InitMerge ==
    /\ prog = "sample_merge_demo"
    /\ gp_type = "str"
    /\ run = 1
    /\ first_wide = NoWide
    /\ crs = FileCrs("EPSG:4326", "EPSG:4326", "EPSG:4326")
    /\ load_columns = LoadColumns
    /\ pc = "merge_load_data"
    /\ load_data \in LoadSamples
    /\ zips_expanded \in SeqsUpTo(LeftRecords, MaxLeft)
    /\ climate_zones = <<>>
    /\ zips = <<>>
    /\ zips_climate = <<>>
    /\ module_names = {}
    /\ gps_all = <<>>
    /\ zip_gp = <<>>
    /\ load_month_hour = <<>>
    /\ feeders = <<>>
    /\ feeder_zip_map = <<>>
    /\ feeder_wide = NoWide
    /\ gps_by_zone = <<>>
    /\ zips_final = <<>>
    /\ dw_load_data = <<>>
    /\ zips_with_loads = <<>>
    /\ error = ""

NextMerge == MergeLoadData \/ DemonstrateMerge \/ LoadAndMergeLoadData

SpecMerge == InitMerge /\ [][NextMerge]_vars

\* the validation runs: a load file with any of the columns of the long
\* format, checked by process_load_data_format and then aggregated
InitFormat ==
    /\ prog = "load_data_loader"
    /\ gp_type = "str"
    /\ run = 1
    /\ first_wide = NoWide
    /\ crs = FileCrs("EPSG:4326", "EPSG:4326", "EPSG:4326")
    /\ load_columns \in SUBSET LoadColumns
    /\ pc = "process_load_data_format"
    /\ load_data \in LoadSamples
    /\ climate_zones = <<>>
    /\ zips = <<>>
    /\ zips_climate = <<>>
    /\ module_names = {}
    /\ gps_all = <<>>
    /\ zip_gp = <<>>
    /\ load_month_hour = <<>>
    /\ feeders = <<>>
    /\ feeder_zip_map = <<>>
    /\ feeder_wide = NoWide
    /\ gps_by_zone = <<>>
    /\ zips_final = <<>>
    /\ zips_expanded = <<>>
    /\ dw_load_data = <<>>
    /\ zips_with_loads = <<>>
    /\ error = ""

NextFormat == ProcessLoadDataFormat \/ AggregateLoadShapes \/ LoadAndMergeLoadData

SpecFormat == InitFormat /\ [][NextFormat]_vars

\* the aggregation runs: any load file of at most MaxObs observations, read
\* by aggregate_load_shapes and then by load_and_merge_load_data
InitAgg ==
    /\ prog = "aggregation"
    /\ gp_type = "str"
    /\ run = 1
    /\ first_wide = NoWide
    /\ crs = FileCrs("EPSG:4326", "EPSG:4326", "EPSG:4326")
    /\ load_columns = LoadColumns
    /\ pc = "aggregate_load_shapes"
    /\ load_data \in SeqsUpTo(ObsRecords, MaxObs)
    /\ climate_zones = <<>>
    /\ zips = <<>>
    /\ zips_climate = <<>>
    /\ module_names = {}
    /\ gps_all = <<>>
    /\ zip_gp = <<>>
    /\ load_month_hour = <<>>
    /\ feeders = <<>>
    /\ feeder_zip_map = <<>>
    /\ feeder_wide = NoWide
    /\ gps_by_zone = <<>>
    /\ zips_final = <<>>
    /\ zips_expanded = <<>>
    /\ dw_load_data = <<>>
    /\ zips_with_loads = <<>>
    /\ error = ""

NextAgg == AggregateLoadShapes \/ LoadAndMergeLoadData

SpecAgg == InitAgg /\ [][NextAgg]_vars


\* ------------------------------------------------------------ properties

\* the shape whose coordinates in reference system c are g
Shape(g, c) == <<g[1] - CrsOrigin(c), g[2] - CrsOrigin(c)>>

\* the centroid of feeder f lies within ZIP polygon z, on the ground
FeederInZip(f, z) ==
    Within(Centroid(Shape(f.geometry, crs.feeders)), Shape(z.geometry, crs.zips))

\* the centroid of ZIP polygon z lies within climate polygon c, on the ground
ZipInClimate(z, c) ==
    Within(Centroid(Shape(z.geometry, crs.zips)), Shape(c.geometry, crs.climate_zones))

\* the merge_pipeline run has returned from build_feeder_load_features
Built == prog = "merge_pipeline" /\ pc = "done"

\* the merge_pipeline run has returned from feeder_zips_map
FeedersMapped == prog = "merge_pipeline" /\ pc \in {"build_feeder_load_features", "done"}

\* the run has returned from process_zip_climate_mapping
ZipsResolved == pc \notin {"load_climate_zones", "load_zips", "map_climate_zones",
                           "process_zip_climate_mapping"}

\* the rows of the feeder-ZIP assignment and of the ZIP-profile pairs that
\* lead from feeder f to profile g
JoinPaths(f, g) ==
    {<<i, j>> \in (DOMAIN feeder_zip_map) \X (DOMAIN zip_gp) :
        /\ feeder_zip_map[i].feeder_id = f
        /\ zip_gp[j].ZIP_CODE = feeder_zip_map[i].ZIP_CODE
        /\ zip_gp[j].gp = g}

\* the rows of the final matrix for (feeder, month, hour)
WideRows(f, m, h) ==
    {n \in DOMAIN feeder_wide.rows :
        /\ feeder_wide.rows[n].feeder_id = f
        /\ feeder_wide.rows[n].month = m
        /\ feeder_wide.rows[n].hour = h}

\* C1 as stated: whenever profile P is a candidate of a ZIP assigned to
\* feeder F and the aggregated load table has the value v for (P, M, H), the
\* cell of row (F, M, H) in the column of P equals v.
C1_CellIsMean ==
    Built =>
        \A k \in DOMAIN load_month_hour, f \in Range(FeederIds) :
            LET r == load_month_hour[k]
            IN JoinPaths(f, r.gp) # {} =>
                  \E n \in WideRows(f, r.month, r.hour) :
                      /\ r.gp \in DOMAIN feeder_wide.rows[n].kwh
                      /\ feeder_wide.rows[n].kwh[r.gp] = r.kwh

\* C1 amended: the cell of row (F, M, H) in the column of P equals v times
\* the number of join paths from F to P (feeder-ZIP rows of F paired with
\* ZIP-profile rows of that ZIP and P): the per-profile means are summed, so
\* the cell is v itself exactly when there is a single path.
C1_CellIsMeanTimesPaths ==
    Built =>
        \A k \in DOMAIN load_month_hour, f \in Range(FeederIds) :
            LET r == load_month_hour[k]
                paths == Cardinality(JoinPaths(f, r.gp))
            IN paths > 0 =>
                  \E n \in WideRows(f, r.month, r.hour) :
                      /\ r.gp \in DOMAIN feeder_wide.rows[n].kwh
                      /\ feeder_wide.rows[n].kwh[r.gp] = Frac(paths * r.kwh[1], r.kwh[2])

\* a profile id that is in both characteristics files reaches a feeder
\* twice, and the feeder's cell holds twice the mean
C1_Witness ==
    /\ Built
    /\ Len(gps_all) = 2
    /\ gps_all[1].gp = gps_all[2].gp
    /\ gps_all[1].type # gps_all[2].type
    /\ \E k \in DOMAIN load_month_hour, n \in DOMAIN feeder_wide.rows :
          LET r == load_month_hour[k]
              w == feeder_wide.rows[n]
          IN /\ Cardinality(JoinPaths(w.feeder_id, r.gp)) = 2
             /\ w.month = r.month /\ w.hour = r.hour
             /\ r.gp \in DOMAIN w.kwh
             /\ w.kwh[r.gp] = Frac(2 * r.kwh[1], r.kwh[2])
             /\ w.kwh[r.gp] # r.kwh


\* the profiles that reach some feeder with load data
ReachingProfiles ==
    {load_month_hour[k].gp : k \in {k \in DOMAIN load_month_hour :
        \E f \in Range(FeederIds) : JoinPaths(f, load_month_hour[k].gp) # {}}}

\* the (feeder, month, hour, profile) combination has a contribution
Contributes(f, m, h, g) ==
    /\ JoinPaths(f, g) # {}
    /\ \E k \in DOMAIN load_month_hour :
          /\ load_month_hour[k].gp = g
          /\ load_month_hour[k].month = m
          /\ load_month_hour[k].hour = h

\* the scenario: ZIPs {90210: Coastal, 95603: Inland}, catalog {P1: Coastal,
\* P2: Inland}, May observations 0.10 and 0.20 of P1 at hour 0, and the
\* single feeder F1 resolved to 90210
Scenario ==
    /\ Built
    /\ gp_type = "str"
    /\ {<<zips_climate[i].ZIP_CODE, zips_climate[i].cz_groups>> : i \in DOMAIN zips_climate}
           = {<<90210, "Coastal">>, <<95603, "Inland">>}
    /\ {<<gps_all[i].gp, gps_all[i].seg_cz>> : i \in DOMAIN gps_all}
           = {<<"P1", "Coastal">>, <<"P2", "Inland">>}
    /\ load_month_hour = <<[gp |-> "P1", month |-> 5, hour |-> 0, kwh |-> <<15, 1>>]>>
    /\ feeder_zip_map = <<[feeder_id |-> "F1", ZIP_CODE |-> 90210]>>

\* C2 as stated: every row of the final matrix has a column for every profile
\* of the catalog, holding 0.0 where the row's feeder has no contribution from
\* it; in the scenario row (F1, 5, 0) has kwh_P2 = 0.0.
C2_ColumnPerCatalogProfile ==
    Built =>
        \A n \in DOMAIN feeder_wide.rows, e \in DOMAIN gps_all :
            LET w == feeder_wide.rows[n]
                g == gps_all[e].gp
            IN /\ \E c \in DOMAIN feeder_wide.columns :
                     c > Len(IndexColumns) /\ feeder_wide.columns[c][2] = g
               /\ g \in DOMAIN w.kwh
               /\ ~Contributes(w.feeder_id, w.month, w.hour, g) => w.kwh[g] = Zero

\* C2 amended: the profile columns of the final matrix are exactly the
\* profiles that reach at least one feeder with load data (a catalog profile
\* that reaches no feeder has no column); every row has a value in each of
\* them, 0.0 where the row's feeder has no contribution in that month-hour.
\* In the scenario row (F1, 5, 0) has kwh_P1 = 0.15 and there is no column
\* kwh_P2.
C2_ColumnPerReachingProfile ==
    Built =>
        /\ {feeder_wide.columns[c][2] : c \in DOMAIN feeder_wide.columns} =
              Range(IndexColumns) \cup ReachingProfiles
        /\ Len(feeder_wide.columns) = Len(IndexColumns) + Cardinality(ReachingProfiles)
        /\ \A n \in DOMAIN feeder_wide.rows :
              LET w == feeder_wide.rows[n]
              IN /\ DOMAIN w.kwh = ReachingProfiles
                 /\ \A g \in ReachingProfiles :
                       ~Contributes(w.feeder_id, w.month, w.hour, g) => w.kwh[g] = Zero
        /\ Scenario =>
              /\ <<"kwh_", "P2">> \notin Range(feeder_wide.columns)
              /\ \E n \in WideRows("F1", 5, 0) : feeder_wide.rows[n].kwh = [g \in {"P1"} |-> <<15, 1>>]

\* the scenario is run: one row, (F1, 5, 0), with the single column kwh_P1
C2_Witness ==
    /\ Scenario
    /\ Len(feeder_wide.rows) = 1
    /\ WideRows("F1", 5, 0) = {1}
    /\ feeder_wide.columns = <<(<<"", "feeder_id">>), (<<"", "month">>), (<<"", "hour">>),
                               (<<"kwh_", "P1">>)>>

\* C3 as stated: in the result of feeder_zips_map every feeder id is in
\* exactly one row (it is assigned exactly one ZIP), also when the feeder's
\* centroid is within several ZIP polygons.
C3_OneRowPerFeeder ==
    FeedersMapped =>
        \A f \in DOMAIN feeders :
            Cardinality({i \in DOMAIN feeder_zip_map :
                            feeder_zip_map[i].feeder_id = feeders[f].feeder_id}) = 1

\* C4 as stated: in the result of process_zip_climate_mapping no ZIP code has
\* two different group labels, also when its centroid is within several
\* climate polygons.
C4_OneGroupPerZip ==
    ZipsResolved =>
        \A i, j \in DOMAIN zips_climate :
            zips_climate[i].ZIP_CODE = zips_climate[j].ZIP_CODE
                => zips_climate[i].cz_groups = zips_climate[j].cz_groups


RECURSIVE SumKwhAt(_, _)
\* the sum of the kwh of the observations at the positions idx
SumKwhAt(obs, idx) ==
    IF idx = {} THEN 0
    ELSE LET i == CHOOSE i \in idx : TRUE
         IN obs[i].kwh + SumKwhAt(obs, idx \ {i})

\* the (profile, month, hour) of the raw observations dated May to October
SeasonKeys ==
    {[gp |-> load_data[i].gp, month |-> load_data[i].month, hour |-> load_data[i].hour] :
        i \in {i \in DOMAIN load_data : load_data[i].month \in 5..10}}

\* table has exactly one row per season key, holding the arithmetic mean of
\* all raw observations of that profile, month and hour
IsSeasonAggregate(table) ==
    /\ {[gp |-> table[n].gp, month |-> table[n].month, hour |-> table[n].hour] :
           n \in DOMAIN table} = SeasonKeys
    /\ Len(table) = Cardinality(SeasonKeys)
    /\ \A n \in DOMAIN table :
          LET same == {i \in DOMAIN load_data :
                          /\ load_data[i].gp = table[n].gp
                          /\ load_data[i].month = table[n].month
                          /\ load_data[i].hour = table[n].hour}
          IN /\ table[n].kwh[2] > 0
             /\ table[n].kwh[1] * Cardinality(same) = SumKwhAt(load_data, same) * table[n].kwh[2]

\* C5: the aggregated load table has exactly one row per (profile, month,
\* hour) observed on a date of May to October and no other row, its kWh is
\* the arithmetic mean of the raw observations of that profile, month and
\* hour, and aggregate_load_shapes and load_and_merge_load_data compute the
\* same table from the same load file.
C5_SeasonMean ==
    prog = "aggregation" =>
        /\ pc # "aggregate_load_shapes" => IsSeasonAggregate(load_month_hour)
        /\ pc = "done" => IsSeasonAggregate(dw_load_data) /\ dw_load_data = load_month_hour

\* a file with an April observation and two May observations, 0.10 and
\* 0.20, of the same profile and hour: one row, with the mean 0.15
C5_Witness ==
    /\ prog = "aggregation"
    /\ pc = "done"
    /\ Len(load_data) = 3
    /\ Len(load_month_hour) = 1
    /\ \E i \in DOMAIN load_data :
          /\ load_data[i].month = 4
          /\ load_data[i].gp = load_month_hour[1].gp
          /\ load_data[i].hour = load_month_hour[1].hour
    /\ load_month_hour[1].month = 5
    /\ load_month_hour[1].kwh = <<15, 1>>
    /\ dw_load_data = load_month_hour


\* the (feeder, month, hour) combinations the join chain
\* feeder -> ZIP -> profile -> aggregated (month, hour) reaches
ReachableIndex ==
    {[feeder_id |-> feeder_zip_map[i].feeder_id, month |-> load_month_hour[k].month,
      hour |-> load_month_hour[k].hour] :
        <<i, k>> \in {<<i, k>> \in (DOMAIN feeder_zip_map) \X (DOMAIN load_month_hour) :
            \E j \in DOMAIN zip_gp :
                /\ zip_gp[j].ZIP_CODE = feeder_zip_map[i].ZIP_CODE
                /\ zip_gp[j].gp = load_month_hour[k].gp}}

\* C6: the final matrix has exactly one row per (feeder, month, hour)
\* reachable through the join chain, no other row, and no profile cell of
\* any row is missing.
C6_PivotComplete ==
    Built =>
        /\ {[feeder_id |-> feeder_wide.rows[n].feeder_id, month |-> feeder_wide.rows[n].month,
             hour |-> feeder_wide.rows[n].hour] : n \in DOMAIN feeder_wide.rows} = ReachableIndex
        /\ Len(feeder_wide.rows) = Cardinality(ReachableIndex)
        /\ \A n \in DOMAIN feeder_wide.rows :
              /\ DOMAIN feeder_wide.rows[n].kwh
                    = {feeder_wide.columns[c][2] : c \in DOMAIN feeder_wide.columns}
                          \ Range(IndexColumns)
              /\ \A g \in DOMAIN feeder_wide.rows[n].kwh :
                    feeder_wide.rows[n].kwh[g] # NaNFrac

\* a matrix of two rows and two profile columns with a filled-in 0.0, built
\* while a candidate profile of the feeder's ZIP has no load data
C6_Witness ==
    /\ Built
    /\ Len(feeder_wide.rows) = 2
    /\ Len(feeder_wide.columns) = 5
    /\ \E g \in DOMAIN feeder_wide.rows[1].kwh : feeder_wide.rows[1].kwh[g] = Zero
    /\ \E j \in DOMAIN zip_gp :
          /\ zip_gp[j].gp = NaN
          /\ \E i \in DOMAIN feeder_zip_map : feeder_zip_map[i].ZIP_CODE = zip_gp[j].ZIP_CODE

\* C7 as stated: a feeder whose centroid is within no ZIP polygon has no row
\* in the result of feeder_zips_map, not even one with a missing ZIP code.
C7_UnmatchedFeederDropped ==
    FeedersMapped =>
        \A f \in DOMAIN feeders :
            (\A z \in DOMAIN zips : ~FeederInZip(feeders[f], zips[z]))
                => \A i \in DOMAIN feeder_zip_map :
                       feeder_zip_map[i].feeder_id # feeders[f].feeder_id

\* C8 as stated: every row of the final matrix carries a ZIP code column
\* whose value is the ZIP assigned to the row's feeder by feeder_zips_map.
C8_RowCarriesZip ==
    Built =>
        \A n \in DOMAIN feeder_wide.rows :
            /\ <<"", "ZIP_CODE">> \in Range(feeder_wide.columns)
            /\ "ZIP_CODE" \in DOMAIN feeder_wide.rows[n]
            /\ \E i \in DOMAIN feeder_zip_map :
                  /\ feeder_zip_map[i].feeder_id = feeder_wide.rows[n].feeder_id
                  /\ feeder_zip_map[i].ZIP_CODE = feeder_wide.rows[n].ZIP_CODE

\* C8 amended: the final matrix has the columns feeder id, month, hour and
\* the profile columns, in that order, and no ZIP code column; a row's ZIP is
\* found only through the feeder-ZIP assignment, which holds a row with a
\* present ZIP code for the feeder of every row of the matrix.
C8_NoZipColumn ==
    Built =>
        /\ Len(feeder_wide.columns) >= 3
        /\ SubSeq(feeder_wide.columns, 1, 3) =
              <<(<<"", "feeder_id">>), (<<"", "month">>), (<<"", "hour">>)>>
        /\ \A c \in DOMAIN feeder_wide.columns :
              /\ feeder_wide.columns[c][2] # "ZIP_CODE"
              /\ c > 3 => feeder_wide.columns[c][2] \in ReachingProfiles
        /\ \A n \in DOMAIN feeder_wide.rows :
              /\ DOMAIN feeder_wide.rows[n] = {"feeder_id", "month", "hour", "kwh"}
              /\ \E i \in DOMAIN feeder_zip_map :
                    /\ feeder_zip_map[i].feeder_id = feeder_wide.rows[n].feeder_id
                    /\ feeder_zip_map[i].ZIP_CODE # NaNNum

\* a matrix with a row and a profile column is built
C8_Witness ==
    /\ Built
    /\ feeder_wide.rows # <<>>
    /\ Len(feeder_wide.columns) > 3
    /\ \E i \in DOMAIN feeder_zip_map :
          /\ feeder_zip_map[i].feeder_id = feeder_wide.rows[1].feeder_id
          /\ feeder_zip_map[i].ZIP_CODE = 90210

\* a ZIP polygon whose centroid is outside every climate polygon
OutsideClimate(z) ==
    \A c \in DOMAIN climate_zones : ~ZipInClimate(z, climate_zones[c])

\* C9 as stated: a ZIP whose centroid is outside all climate polygons is in
\* no downstream table: not in the ZIP-climate assignment, not in the
\* ZIP-profile pairs, and a feeder whose centroid falls in that ZIP (and in
\* no ZIP that has a climate polygon) is dropped from the feeder-ZIP
\* assignment and from the final matrix.
C9_UnresolvedZipAbsent ==
    \A z \in DOMAIN zips :
        (ZipsResolved /\ OutsideClimate(zips[z])) =>
            /\ \A i \in DOMAIN zips_climate : zips_climate[i].ZIP_CODE # zips[z].ZIP_CODE
            /\ \A j \in DOMAIN zip_gp : zip_gp[j].ZIP_CODE # zips[z].ZIP_CODE
            /\ \A f \in DOMAIN feeders :
                  ( /\ FeedersMapped
                    /\ FeederInZip(feeders[f], zips[z])
                    /\ \A y \in DOMAIN zips :
                          FeederInZip(feeders[f], zips[y])
                              => OutsideClimate(zips[y]) )
                  => /\ \A i \in DOMAIN feeder_zip_map :
                           feeder_zip_map[i].feeder_id # feeders[f].feeder_id
                     /\ \A n \in DOMAIN feeder_wide.rows :
                           feeder_wide.rows[n].feeder_id # feeders[f].feeder_id

\* the catalog entries whose segment group is grp
CatalogCount(grp) == Cardinality({e \in DOMAIN gps_all : gps_all[e].seg_cz = grp})

Max(a, b) == IF a >= b THEN a ELSE b

RECURSIVE SumOver(_, _)
\* the sum of f over the set S
SumOver(S, f) ==
    IF S = {} THEN 0
    ELSE LET x == CHOOSE x \in S : TRUE
         IN f[x] + SumOver(S \ {x}, f)

\* the distinct (ZIP, group) pairs of the ZIP-climate assignment
ZipGroupPairs ==
    {<<zips_climate[i].ZIP_CODE, zips_climate[i].cz_groups>> : i \in DOMAIN zips_climate}

ZipGpDone == prog = "merge_pipeline" /\ pc \notin
    {"load_climate_zones", "load_zips", "map_climate_zones",
     "process_zip_climate_mapping", "load_calmac_characteristics", "zip_gp_lookup"}

ExpandDone == prog = "data_wrangling" /\ pc \in {"load_and_merge_load_data", "save_results", "error"}

\* C10 as stated: the number of rows of the ZIP-profile table is the sum,
\* over the ZIPs of the ZIP-climate assignment, of the number of catalog
\* profiles of that ZIP's group, also when a group has no catalog entry.
C10_RowCountIsSum ==
    /\ ZipGpDone => Len(zip_gp) =
          SumOver(ZipGroupPairs, [p \in ZipGroupPairs |-> CatalogCount(p[2])])
    /\ ExpandDone => Len(zips_expanded) =
          SumOver(DOMAIN zips_climate,
                  [i \in DOMAIN zips_climate |-> CatalogCount(zips_climate[i].cz_groups)])

\* the row count the code produces: a ZIP whose group has no catalog entry
\* still yields one row (with a missing profile), so the number of rows is the sum of
\* max(1, number of catalog profiles of the group), taken over the distinct
\* (ZIP, group) pairs of the ZIP-climate assignment for zip_gp_lookup and
\* over its rows for merge_datasets followed by expand_load_shapes.
C10_RowCountIsSumOfMax ==
    /\ ZipGpDone => Len(zip_gp) =
          SumOver(ZipGroupPairs, [p \in ZipGroupPairs |-> Max(1, CatalogCount(p[2]))])
    /\ ExpandDone => Len(zips_expanded) =
          SumOver(DOMAIN zips_climate,
                  [i \in DOMAIN zips_climate |-> Max(1, CatalogCount(zips_climate[i].cz_groups))])

\* a ZIP with two candidate profiles next to a ZIP whose group has no
\* catalog entry: three rows, one of them with a missing profile
C10_Witness ==
    /\ ZipGpDone
    /\ Len(zip_gp) = 3
    /\ \E j \in DOMAIN zip_gp : zip_gp[j].gp = NaN
    /\ \E p \in ZipGroupPairs : CatalogCount(p[2]) = 2

\* the rows of the ZIP-profile table for ZIP z
RowsOfZip(table, z) == {j \in DOMAIN table : table[j].ZIP_CODE = z}

\* table is the ZIP-profile table the claim describes for the ZIP-climate
\* assignment and the catalog: (z, p) with a present profile is a row exactly
\* when a catalog entry of p has the group of z, and a ZIP none of whose
\* groups has a catalog entry has exactly one row, with a missing profile
IsExpansion(table) ==
    /\ \A i \in DOMAIN zips_climate, p \in Range(GpIds) :
          LET z == zips_climate[i].ZIP_CODE
          IN (\E j \in RowsOfZip(table, z) : table[j].gp = p)
                <=> \E k \in DOMAIN zips_climate, e \in DOMAIN gps_all :
                       /\ zips_climate[k].ZIP_CODE = z
                       /\ gps_all[e].gp = p
                       /\ gps_all[e].seg_cz = zips_climate[k].cz_groups
    /\ \A j \in DOMAIN table :
          table[j].gp # NaN =>
              \E e \in DOMAIN gps_all :
                  gps_all[e].gp = table[j].gp /\ gps_all[e].seg_cz = table[j].cz_groups
    /\ \A i \in DOMAIN zips_climate :
          LET z == zips_climate[i].ZIP_CODE
          IN (\A k \in DOMAIN zips_climate :
                  zips_climate[k].ZIP_CODE = z => CatalogCount(zips_climate[k].cz_groups) = 0)
                => /\ Cardinality(RowsOfZip(table, z)) = 1
                   /\ \A j \in RowsOfZip(table, z) : table[j].gp = NaN

\* C11 as stated: in the ZIP-profile table of zip_gp_lookup, and of
\* merge_datasets followed by expand_load_shapes, a row (z, p) with a present
\* profile exists if and only if the group of z is the segment group of p in
\* the catalog, and a ZIP whose group has no catalog entry has exactly one
\* row, whose profile is missing.
C11_RowIffGroupMatch ==
    /\ ZipGpDone => IsExpansion(zip_gp)
    /\ ExpandDone => IsExpansion(zips_expanded)

\* the same, for the ZIPs that have a single row in the ZIP-climate assignment
C11_SingleAssignment ==
    (\A i, k \in DOMAIN zips_climate : zips_climate[i].ZIP_CODE = zips_climate[k].ZIP_CODE => i = k)
        => C11_RowIffGroupMatch

\* the feeders that feeder_zips_map resolved to a ZIP
ResolvedFeeders ==
    {feeder_zip_map[i].feeder_id : i \in {i \in DOMAIN feeder_zip_map :
                                            feeder_zip_map[i].ZIP_CODE # NaNNum}}

\* the feeder, month and hour values present in the final matrix
WideFeeders == {feeder_wide.rows[n].feeder_id : n \in DOMAIN feeder_wide.rows}

WideMonths == {feeder_wide.rows[n].month : n \in DOMAIN feeder_wide.rows}

WideHours == {feeder_wide.rows[n].hour : n \in DOMAIN feeder_wide.rows}

ProfileColumns ==
    [c \in 1..(Len(feeder_wide.columns) - Len(IndexColumns)) |->
        feeder_wide.columns[c + Len(IndexColumns)][2]]

\* the index columns come first and the profile columns follow in sorted
\* profile-id order, one per profile
ColumnsSorted ==
    /\ Len(feeder_wide.columns) >= Len(IndexColumns)
    /\ SubSeq(feeder_wide.columns, 1, Len(IndexColumns)) =
          [c \in DOMAIN IndexColumns |-> <<"", IndexColumns[c]>>]
    /\ \A c, d \in DOMAIN ProfileColumns :
          c < d => GpRank(ProfileColumns[c]) < GpRank(ProfileColumns[d])

\* C13 as stated: the profile columns follow the index columns in sorted
\* profile-id order and every one of them is named "kwh_" followed by the
\* profile id, whatever the type or spelling of the id, so that none is
\* mistaken for an index column.
C13_AllColumnsPrefixed ==
    Built =>
        /\ ColumnsSorted
        /\ \A c \in DOMAIN feeder_wide.columns :
              c > Len(IndexColumns) => feeder_wide.columns[c][1] = "kwh_"

\* C13 amended: the profile columns follow the index columns in sorted
\* profile-id order; a profile column is named "kwh_" followed by the
\* profile id when the id is a string (other than an index column name), and
\* keeps the bare id as its name when the id is not a string (integer ids);
\* no profile column has the name of an index column.
C13_StrColumnsPrefixed ==
    Built =>
        /\ ColumnsSorted
        /\ \A c \in DOMAIN feeder_wide.columns :
              c > Len(IndexColumns) =>
                  /\ feeder_wide.columns[c][1] = (IF gp_type = "str" THEN "kwh_" ELSE "")
                  /\ feeder_wide.columns[c] \notin {<<"", x>> : x \in Range(IndexColumns)}

\* a matrix with two profile columns is built from files whose profile ids
\* are integers: the columns are in id order and carry no prefix
C13_Witness ==
    /\ Built
    /\ gp_type = "int"
    /\ feeder_wide.rows # <<>>
    /\ Len(feeder_wide.columns) = Len(IndexColumns) + 2
    /\ feeder_wide.columns[4] = <<"", GpIds[1]>>
    /\ feeder_wide.columns[5] = <<"", GpIds[2]>>

C15_MismatchFails ==
    /\ (ZipsResolved /\ crs.zips # crs.climate_zones)
          => error # "" /\ zips_climate = <<>>
    /\ (FeedersMapped /\ crs.feeders # crs.zips_climate)
          => error # "" /\ feeder_zip_map = <<>>

\* C15 amended: when the two geometry tables of a spatial join are in
\* different reference systems the stage raises no error: it reprojects the
\* left table (ZIP polygons, feeders) into the reference system of the right
\* one and joins there, so the assignment it returns is the one the shapes
\* have on the ground, whatever systems the files came in.
C15_MismatchReprojected ==
    /\ pc = "load_calmac_characteristics" => error = ""
    /\ pc = "build_feeder_load_features" => error = ""
    /\ ZipsResolved =>
          /\ crs.zips_climate = crs.climate_zones
          /\ \A z \in DOMAIN zips, c \in DOMAIN climate_zones :
                (\E i \in DOMAIN zips_climate :
                    /\ zips_climate[i].ZIP_CODE = zips[z].ZIP_CODE
                    /\ zips_climate[i].index_right = c - 1
                    /\ zips_climate[i].geometry =
                          InCrs(Shape(zips[z].geometry, crs.zips), crs.climate_zones))
                <=> (ZipInClimate(zips[z], climate_zones[c])
                        /\ climate_zones[c].cz_groups # NaN)
    /\ FeedersMapped =>
          \A f \in DOMAIN feeders, i \in DOMAIN zips_climate :
              (\E k \in DOMAIN feeder_zip_map :
                  /\ feeder_zip_map[k].feeder_id = feeders[f].feeder_id
                  /\ feeder_zip_map[k].ZIP_CODE = zips_climate[i].ZIP_CODE)
              <=> \E j \in DOMAIN zips_climate :
                     /\ zips_climate[j].ZIP_CODE = zips_climate[i].ZIP_CODE
                     /\ Within(Centroid(Shape(feeders[f].geometry, crs.feeders)),
                               Shape(zips_climate[j].geometry, crs.zips_climate))

\* ZIP polygons and feeders in another reference system than the climate
\* polygons: both joins have run and have matched a ZIP and a feeder
C15_Witness ==
    /\ FeedersMapped
    /\ crs.zips # crs.climate_zones
    /\ crs.feeders # crs.zips_climate
    /\ error = ""
    /\ zips_climate # <<>>
    /\ \E k \in DOMAIN feeder_zip_map : feeder_zip_map[k].ZIP_CODE # NaNNum

\* the error names the column col
NamesColumn(e, col) == e \in {KeyErrorOf(col), MissingRequiredColumn(col)}

\* C16 as stated, for the load-shape records: when one of the key columns
\* profile id, date, hour, kWh is absent from the load table, the stage that
\* consumes the table (process_load_data_format, then the aggregation) does
\* not return: it fails with an error that names a missing column.
C16_MissingColumnFails ==
    (prog = "load_data_loader" /\ pc # "process_load_data_format"
        /\ ~(LoadColumns \subseteq load_columns))
    => /\ pc = "error"
       /\ \E col \in LoadColumns \ load_columns : NamesColumn(error, col)

\* the table of the claim: zone code -> group
GroupTable ==
    [b \in {1, 2, 3, 4, 5, 11, 12, 13} |->
        IF b \in {1, 3, 5} THEN "Coastal"
        ELSE IF b \in {2, 4} THEN "Inland"
        ELSE IF b \in {11, 12} THEN "North Central Valley"
        ELSE "South Central Valley"]

\* map_climate_zones has returned
ZonesMapped == pc \notin {"load_climate_zones", "load_zips", "map_climate_zones"}

\* C17: map_climate_zones gives every climate polygon the group of the
\* fixed table {1,3,5: Coastal; 2,4: Inland; 11,12: North Central Valley;
\* 13: South Central Valley}; a zone code outside the table gets a missing
\* group and no error is raised; a ZIP whose centroid lies only in polygons
\* with a missing group is not in the ZIP-climate assignment.
C17_FixedTable ==
    /\ pc = "process_zip_climate_mapping" => error = ""
    /\ ZonesMapped =>
          \A i \in DOMAIN climate_zones :
              climate_zones[i].cz_groups =
                  (IF climate_zones[i].BZone \in DOMAIN GroupTable
                   THEN GroupTable[climate_zones[i].BZone] ELSE NaN)
    /\ ZipsResolved =>
          \A z \in DOMAIN zips :
              (\A c \in DOMAIN climate_zones :
                  ZipInClimate(zips[z], climate_zones[c])
                      => climate_zones[c].BZone \notin DOMAIN GroupTable)
              => \A i \in DOMAIN zips_climate : zips_climate[i].ZIP_CODE # zips[z].ZIP_CODE

\* zone 12 is mapped to North Central Valley and zone 16, which is not in
\* the table, to a missing group; the ZIP that lies only in the polygon of
\* zone 16 is left out of the assignment and the other ZIP is in it
C17_Witness ==
    /\ ZipsResolved
    /\ climate_zones[1].BZone = 12
    /\ climate_zones[1].cz_groups = "North Central Valley"
    /\ climate_zones[2].BZone = 16
    /\ climate_zones[2].cz_groups = NaN
    /\ ZipInClimate(zips[1], climate_zones[1])
    /\ ZipInClimate(zips[2], climate_zones[2])
    /\ ~ZipInClimate(zips[2], climate_zones[1])
    /\ Len(zips_climate) = 1
    /\ zips_climate[1].ZIP_CODE = zips[1].ZIP_CODE

\* the (ZIP, group, profile) a row of a ZIP-profile table is about
PairOf(r) == <<r.ZIP_CODE, r.cz_groups, r.gp>>

\* the number of rows of load table ld for profile g
LoadRowsOf(ld, g) == Cardinality({j \in DOMAIN ld : ld[j].gp = g})

\* merged is the left merge of zips_expanded with load table ld, as C18
\* states it; no_kwh is the missing value of ld's kwh column
IsLeftMergeWith(merged, ld, no_kwh) ==
    /\ error = ""
    /\ \A i \in DOMAIN zips_expanded :
          LET v == PairOf(zips_expanded[i])
              n == LoadRowsOf(ld, zips_expanded[i].gp)
              same == {h \in DOMAIN zips_expanded : PairOf(zips_expanded[h]) = v}
              copies == {k \in DOMAIN merged : PairOf(merged[k]) = v}
          IN /\ Cardinality(copies) = Cardinality(same) * Max(1, n)
             /\ n = 0 => \A k \in copies :
                   /\ merged[k].month = NaNNum
                   /\ merged[k].hour = NaNNum
                   /\ merged[k].kwh = no_kwh
    /\ Len(merged) =
          SumOver(DOMAIN zips_expanded,
                  [i \in DOMAIN zips_expanded |-> Max(1, LoadRowsOf(ld, zips_expanded[i].gp))])

\* merge_load_data or demonstrate_merge has returned
RawMerged == prog = "sample_merge_demo" /\ pc \in {"demonstrate_merge", "load_and_merge_load_data"}

\* load_and_merge_load_data has returned
AggMerged == pc = "save_results" \/ (prog = "sample_merge_demo" /\ pc = "done")

\* C18: merging the expanded ZIP-profile table with load data
\* (merge_load_data, demonstrate_merge, load_and_merge_load_data) raises no
\* error on a join miss and loses no row: every (ZIP, profile) row of the
\* left table is in the result at least once, a row whose profile has no
\* load data is there exactly once with missing month, hour and kWh, and the
\* number of rows is the sum over the left rows of max(1, number of load
\* rows of the row's profile).
C18_LeftMergeKeepsRows ==
    /\ RawMerged => IsLeftMergeWith(zips_with_loads, load_data, NaNNum)
    /\ AggMerged => IsLeftMergeWith(zips_with_loads, dw_load_data, NaNFrac)

\* merge_load_data has merged a ZIP of profile P1, which has two load rows,
\* and a ZIP of profile P2, which has none: three rows, the one of P2 with
\* missing month, hour and kWh
C18_Witness ==
    /\ prog = "sample_merge_demo"
    /\ pc = "demonstrate_merge"
    /\ Len(zips_expanded) = 2
    /\ zips_expanded[1].gp = "P1"
    /\ zips_expanded[2].gp = "P2"
    /\ LoadRowsOf(load_data, "P1") = 2
    /\ LoadRowsOf(load_data, "P2") = 0
    /\ Len(zips_with_loads) = 3
    /\ zips_with_loads[3].gp = "P2"
    /\ zips_with_loads[3].kwh = NaNNum

\* the stages other than map_climate_zones leave the tables they are given
\* as they were
OtherStagesKeepInput ==
    /\ ProcessZipClimateMapping => zips' = zips /\ climate_zones' = climate_zones
    /\ ZipGpLookup => zips_climate' = zips_climate /\ gps_all' = gps_all
    /\ GroupByClimateZoneStep => gps_all' = gps_all
    /\ MergeDatasets => zips_climate' = zips_climate /\ gps_by_zone' = gps_by_zone
    /\ ExpandLoadShapes => zips_final' = zips_final
    /\ FeederZipsMap => feeders' = feeders /\ zips' = zips
    /\ BuildFeederLoadFeatures =>
          /\ zip_gp' = zip_gp
          /\ load_month_hour' = load_month_hour
          /\ feeder_zip_map' = feeder_zip_map

\* C19: no pipeline stage modifies a table it receives: when
\* map_climate_zones, process_zip_climate_mapping, zip_gp_lookup,
\* group_by_climate_zone, merge_datasets, expand_load_shapes, feeder_zips_map
\* or build_feeder_load_features returns, every argument table has the
\* columns and the values it had before the call.
C19_NoStageModifiesInput ==
    [][(MapClimateZones => climate_zones' = climate_zones) /\ OtherStagesKeepInput]_vars

\* what holds of the code: every stage but map_climate_zones leaves its
\* argument tables alone
C19_OtherStagesKeepInput == [][OtherStagesKeepInput]_vars

\* C20: the result of feeder_zips_map(feeders, zips) is a function of its
\* two arguments only: the feeders are tested for containment against the
\* ZIP polygons passed as zips, and the call returns that assignment whatever
\* module-level state exists, including none (no failure on a missing
\* module-level name).
C20_FunctionOfArguments ==
    /\ FeedersMapped =>
          feeder_zip_map = FeederZipsMapOf(feeders, crs.feeders, zips, crs.zips)
    /\ prog = "merge_pipeline" => ~(pc = "error" /\ error = "NameError")

\* the place of a control point in that order, 0 for one that is not in it
StageRank(p) ==
    IF \E i \in DOMAIN MainStages : MainStages[i] = p
    THEN CHOOSE i \in DOMAIN MainStages : MainStages[i] = p
    ELSE 0

\* a stage leads to the stage that follows it in pipeline order
NextStageInOrder == pc' # pc => StageRank(pc') = StageRank(pc) + 1

\* main has returned (zips_final, zips_expanded)
MainReturned == pc = "done" /\ error = ""

\* C21: a run of data_wrangling.main in which every input loads executes
\* the stages exactly once in pipeline order (load climate zones and ZIPs,
\* map_climate_zones, process_zip_climate_mapping,
\* load_calmac_characteristics, group_by_climate_zone, merge_datasets,
\* expand_load_shapes, load_and_merge_load_data, save) and eventually
\* terminates by returning (zips_final, zips_expanded).
C21_MainRunsAndReturns == [][NextStageInOrder]_vars /\ <>MainReturned

\* what holds of the code, first half: up to the call of save_results the
\* stages run once each, in pipeline order
C21_OrderedUntilSave ==
    [][pc # "save_results" => NextStageInOrder]_vars

\* what holds of the code, second half: every run ends in the NameError of
\* the call of save_results, after zips_final and zips_expanded were
\* computed, and never returns
C21_EndsInNameError ==
    /\ <>[](pc = "error" /\ error = "NameError")
    /\ [](pc = "error" => zips_final = MergeDatasetsOf(zips_climate, gps_by_zone)
                             /\ zips_expanded = ExpandLoadShapesOf(zips_final))
    /\ [](pc # "done")

====
